---- MODULE Spec2Model ----
(***************************************************************************)
(* Model of the email-claude worker: the Redis job queues with delayed     *)
(* retry and dead-letter (src/src/worker.ts), the webhook that enqueues    *)
(* jobs (src/unnamed/part_005), the session rows (src/src/session.ts), the *)
(* subject commands (src/src/commands.ts) and the email job handler with   *)
(* its plan mode (src/src/handlers/email-job.ts).                          *)
(*                                                                         *)
(* Spec        the worker process: webhook, worker loop, retry promoters   *)
(*             and the clock.                                              *)
(* FairSpec    Spec with the scheduling the two loops of worker.ts give.   *)
(* HandlerSpec handleEmailJob called directly with a caller-built Session  *)
(*             object, as src/src/handlers/email-job.test.ts does.         *)
(* LoopSpec    one worker process with every collaborator failure, an      *)
(*             unparsable payload and the shutdown signals.                *)
(* TextSpec    parseCommand, detectApproval and hashSubject applied to     *)
(*             subjects given character by character.                      *)
(* ThreadSpec  the webhook resolving the session from the subject, and the *)
(*             worker.                                                     *)
(* RaceSpec    two workers processing two jobs of one session.             *)
(***************************************************************************)
EXTENDS Integers, Sequences, FiniteSets, TLC

\* ------------------------------------------------------------------ bounds
MaxJobs == 2
MaxTime == 8000
MaxCalls == 2

\* ------------------------------------------------- constants of the program
MAX_RETRIES == 3
RetryBaseMs == 1000
RETRY_PROCESSOR_INTERVAL_MS == 1000
\* the clock is observed at the grain of the retry processor's sleep
TickMs == RETRY_PROCESSOR_INTERVAL_MS

\* JavaScript's absent values
Undefined == "undefined"
Null == "null"
\* retryCount is optional on EmailJob; -1 stands for the absent property
AbsentCount == -1
\* pr_number NULL
NoPR == 0

Promoters == {"p1", "p2"}
Sessions == {"s1"}
\* the ids generateSessionId hands out, in the order of creation
SessionIds == <<"s1", "s2", "s3", "s4">>

RECURSIVE Pow2(_)
Pow2(n) == IF n <= 0 THEN 1 ELSE 2 * Pow2(n - 1)

Last(s) == s[Len(s)]

\* ---------------------------------------------------------- Redis commands
lPush(list, v) == <<v>> \o list
rPush(list, v) == Append(list, v)
zAdd(zset, score, value) ==
  {e \in zset : e.value # value} \cup {[value |-> value, score |-> score]}
zRem(zset, value) == {e \in zset : e.value # value}
\* variant: a ZREM that reports a removal whether or not the member was there
zCardAlwaysOne(zset, value) == 1
\* the number ZREM returns: the members it removed
zCard(zset, value) == Cardinality({e \in zset : e.value = value})

\* members are ordered by score, equal scores by member
EntryBefore(a, b) ==
  \/ a.score < b.score
  \/ a.score = b.score /\ a.value.id < b.value.id
  \/ a.score = b.score /\ a.value.id = b.value.id
     /\ a.value.retryCount <= b.value.retryCount

RECURSIVE SortedValues(_)
SortedValues(es) ==
  IF es = {} THEN <<>>
  ELSE LET m == CHOOSE a \in es : \A b \in es : EntryBefore(a, b)
       IN <<m.value>> \o SortedValues(es \ {m})

\* variant: a range query that ignores its upper bound
zRangeByScoreUnbounded(zset, lo, hi) ==
  SortedValues({e \in zset : e.score >= lo})

\* variant: a range query that never finds a due member
zRangeByScoreNothing(zset, lo, hi) == <<>>

zRangeByScore(zset, lo, hi) ==
  SortedValues({e \in zset : e.score >= lo /\ e.score <= hi})

\* ------------------------------------------------------------ commands.ts
\* A subject is modelled by the bracket tokens it contains; the text of
\* subject and body by the phrase classes its regular expressions match.
Tokens == {"merge", "close", "status", "plan", "confirm", "cancel"}
Phrases == {"approval", "revision", "plan"}

\* null is "none"
parseCommand(tokens) ==
  IF "merge" \in tokens THEN "merge"
  ELSE IF "close" \in tokens THEN "close"
  ELSE IF "status" \in tokens THEN "status"
  ELSE IF "plan" \in tokens THEN "plan"
  ELSE IF "confirm" \in tokens THEN "confirm"
  ELSE IF "cancel" \in tokens THEN "cancel"
  ELSE "none"

detectPlanTrigger(phrases) == "plan" \in phrases

\* variant: the revision phrases are tested before the [confirm] token
detectApprovalRevisionFirst(tokens, phrases) ==
  IF "revision" \in phrases THEN FALSE
  ELSE IF "confirm" \in tokens THEN TRUE
  ELSE "approval" \in phrases

detectApproval(tokens, phrases) ==
  IF "confirm" \in tokens THEN TRUE
  ELSE IF "revision" \in phrases THEN FALSE
  ELSE "approval" \in phrases

\* A subject line is a sequence of characters.
UpperCase == <<"A", "B", "C", "D", "E", "F", "G", "H", "I", "J", "K", "L", "M",
               "N", "O", "P", "Q", "R", "S", "T", "U", "V", "W", "X", "Y", "Z">>
LowerCase == <<"a", "b", "c", "d", "e", "f", "g", "h", "i", "j", "k", "l", "m",
               "n", "o", "p", "q", "r", "s", "t", "u", "v", "w", "x", "y", "z">>

toLowerCaseChar(c) ==
  IF \E i \in DOMAIN UpperCase : UpperCase[i] = c
  THEN LowerCase[CHOOSE i \in DOMAIN UpperCase : UpperCase[i] = c]
  ELSE c

\* String.prototype.toLowerCase
toLowerCase(s) == [i \in DOMAIN s |-> toLowerCaseChar(s[i])]

\* String.prototype.includes
includes(s, t) ==
  \E i \in 1..(Len(s) - Len(t) + 1) : SubSeq(s, i, i + Len(t) - 1) = t

\* the six literals parseCommand looks for
TokenText ==
  [merge |-> <<"[", "m", "e", "r", "g", "e", "]">>,
   close |-> <<"[", "c", "l", "o", "s", "e", "]">>,
   status |-> <<"[", "s", "t", "a", "t", "u", "s", "]">>,
   plan |-> <<"[", "p", "l", "a", "n", "]">>,
   confirm |-> <<"[", "c", "o", "n", "f", "i", "r", "m", "]">>,
   cancel |-> <<"[", "c", "a", "n", "c", "e", "l", "]">>]

\* variant: the tokens found without lower-casing the subject
SubjectTokensCaseSensitive(subject) ==
  {t \in Tokens : includes(subject, TokenText[t])}

\* lowerSubject.includes("[...]") for each of the six tokens
SubjectTokens(subject) ==
  {t \in Tokens : includes(toLowerCase(subject), TokenText[t])}

\* ------------------------------------------------------------- session.ts
\* A row of the sessions table: the columns initDb creates that the worker
\* reads back. The table has no mode and no pending_plan column.
NoRow == [exists |-> FALSE, claudeSessionId |-> Null, prNumber |-> NoPR]
NewRow == [exists |-> TRUE, claudeSessionId |-> Null, prNumber |-> NoPR]

\* Partial<Session> as the handlers build it: Undefined / -1 are absent keys
NoUpdate ==
  [claudeSessionId |-> Undefined, prNumber |-> -1,
   mode |-> Undefined, pendingPlan |-> Undefined]

\* updateSession writes claude_session_id and pr_number when the key is
\* present; any other key of the update (mode, pendingPlan) is not written.
updateSession(row, u) ==
  [row EXCEPT
     !.claudeSessionId =
        IF u.claudeSessionId # Undefined THEN u.claudeSessionId ELSE @,
     !.prNumber = IF u.prNumber # -1 THEN u.prNumber ELSE @]

\* variant: a SELECT that does not read pr_number
getSessionByIdWithoutPR(row, sid) ==
  [id |-> sid, claudeSessionId |-> row.claudeSessionId,
   prNumber |-> NoPR, mode |-> Undefined, pendingPlan |-> Undefined]

\* variant: a SELECT that does not read claude_session_id
getSessionByIdWithoutToken(row, sid) ==
  [id |-> sid, claudeSessionId |-> Null,
   prNumber |-> row.prNumber, mode |-> Undefined, pendingPlan |-> Undefined]

\* getSessionById (worker.ts): the Session object handed to the handler; the
\* SELECT names no mode and no pending plan, so both read as undefined.
getSessionById(row, sid) ==
  [id |-> sid, claudeSessionId |-> row.claudeSessionId,
   prNumber |-> row.prNumber, mode |-> Undefined, pendingPlan |-> Undefined]

\* \s and the characters trim() removes
WhiteSpace == {" ", "\t"}

RECURSIVE trimStart(_)
trimStart(s) ==
  IF s # <<>> /\ Head(s) \in WhiteSpace THEN trimStart(Tail(s)) ELSE s

RECURSIVE trimEnd(_)
trimEnd(s) ==
  IF s # <<>> /\ s[Len(s)] \in WhiteSpace
  THEN trimEnd(SubSeq(s, 1, Len(s) - 1)) ELSE s

\* String.prototype.trim
trim(s) == trimEnd(trimStart(s))

startsWithIgnoreCase(s, p) ==
  Len(s) >= Len(p) /\ toLowerCase(SubSeq(s, 1, Len(p))) = p

\* subject.replace(/^(?:re:|fwd?:|fw:)\s*/gi, ""): the pattern is anchored at
\* the start, so it matches at most once: one prefix and the white space
\* after it
stripReplyPrefix(subject) ==
  IF startsWithIgnoreCase(subject, <<"r", "e", ":">>)
  THEN trimStart(SubSeq(subject, 4, Len(subject)))
  ELSE IF startsWithIgnoreCase(subject, <<"f", "w", "d", ":">>)
  THEN trimStart(SubSeq(subject, 5, Len(subject)))
  ELSE IF startsWithIgnoreCase(subject, <<"f", "w", ":">>)
  THEN trimStart(SubSeq(subject, 4, Len(subject)))
  ELSE subject

normalizeSubject(subject) == toLowerCase(trim(stripReplyPrefix(subject)))

\* the first 12 hex digits of the SHA-256 of the normalized subject: two
\* subjects have the same hash when their normalized texts are the same
hashSubject(subject) == [sha256 |-> normalizeSubject(subject)]

\* subject_hash of a row that does not exist
NoHash == [sha256 |-> <<"-">>]

\* ------------------------------------------------- handlers/email-job.ts
\* What one run of the handler does, in order: every call that leaves the
\* handler (session writes, conversation log, agent, pull-request CLI, mail).
Effect(k, str, plan, tok, n, u) ==
  [k |-> k, s |-> str, plan |-> plan, tok |-> tok, n |-> n, u |-> u]
Msg(role, tag) == Effect("msg", role, tag, "", 0, NoUpdate)
Upd(u) == Effect("update", "", "", "", 0, u)
\* ClaudeCodeService: which prompt was built, the plan given as context, and
\* the continuation token the run resumes ("null": a fresh run)
Agent(prompt, plan, tok) == Effect("agent", prompt, plan, tok, 0, NoUpdate)
PrOp(op, n) == Effect("pr", op, "", "", n, NoUpdate)
\* sendReply: the kind of reply, the plan text and the pull request it shows
Reply(kind, plan, n) == Effect("reply", kind, plan, "", n, NoUpdate)

Throw(trace, err) == [ok |-> FALSE, err |-> err, trace |-> trace]
Return(trace) == [ok |-> TRUE, err |-> "", trace |-> trace]

\* result.claudeSessionId ?? session.claudeSessionId
Coalesce(a, b) == IF a # Null /\ a # Undefined THEN a ELSE b

\* The outcomes of the collaborators during one run:
\*   fail      the first call that throws ("none": no call throws)
\*   commits   hasCommitsAhead
\*   out, tok  the agent's summary and the session id it reports
\*   offDefault the repository was found on another branch than the default
\*   newPr     the number createPR returns
FailPoints == {"none", "repo", "branch", "agent", "pr", "url"}

\* ensureRepo, ensureOnDefaultBranch (new sessions only), ensureBranch
PrepareBranch(session, env, safety) ==
  IF env.fail = "repo" THEN Throw(<<>>, "repo")
  ELSE LET notice == IF safety /\ session.prNumber = NoPR /\ env.offDefault
                     THEN <<Reply("branch-notice", "", 0)>> ELSE <<>>
       IN IF env.fail = "branch" THEN Throw(notice, "branch")
          ELSE Return(notice)

runClaude(prompt, plan, session, env) ==
  IF env.fail = "agent"
  THEN Throw(<<Agent(prompt, plan, session.claudeSessionId)>>, "agent")
  ELSE Return(<<Agent(prompt, plan, session.claudeSessionId)>>)

SaveClaudeSessionId(session, env) ==
  IF env.tok # Null /\ session.claudeSessionId = Null
  THEN <<Upd([NoUpdate EXCEPT !.claudeSessionId = env.tok])>> ELSE <<>>

\* variant: a finalization that opens a pull request at every run
finalizePRAndReplyAlwaysNew(session, env) ==
  IF ~env.commits THEN Return(<<Reply("success", "", NoPR)>>)
  ELSE IF env.fail = "pr" THEN Throw(<<>>, "pr")
  ELSE LET made == <<PrOp("createPR", env.newPr),
                     Upd([NoUpdate EXCEPT !.prNumber = env.newPr])>>
       IN IF env.fail = "url" THEN Throw(made, "url")
          ELSE Return(made \o <<PrOp("getPRUrl", env.newPr),
                                Reply("success", "", env.newPr)>>)

\* variant: a finalization that does not ask hasCommitsAhead
finalizePRAndReplyWithoutCommitCheck(session, env) ==
  finalizePRAndReplyAlwaysNew(session, [env EXCEPT !.commits = TRUE])

finalizePRAndReply(session, env) ==
  IF ~env.commits THEN Return(<<Reply("success", "", NoPR)>>)
  ELSE IF session.prNumber = NoPR
  THEN IF env.fail = "pr" THEN Throw(<<>>, "pr")
       ELSE LET made == <<PrOp("createPR", env.newPr),
                          Upd([NoUpdate EXCEPT !.prNumber = env.newPr])>>
            IN IF env.fail = "url" THEN Throw(made, "url")
               ELSE Return(made \o <<PrOp("getPRUrl", env.newPr),
                                     Reply("success", "", env.newPr)>>)
  ELSE IF env.fail = "pr" THEN Throw(<<>>, "pr")
       ELSE LET made == <<PrOp("commentOnPR", session.prNumber)>>
            IN IF env.fail = "url" THEN Throw(made, "url")
               ELSE Return(made \o <<PrOp("getPRUrl", session.prNumber),
                                     Reply("success", "", session.prNumber)>>)

\* run `first`; when it returns, go on with `rest`
Seq2(first, rest) ==
  IF first.ok THEN [rest EXCEPT !.trace = first.trace \o @] ELSE first

handlePlanRequest(job, session, env) ==
  Seq2(PrepareBranch(session, env, TRUE),
  Seq2(Return(<<Msg("user", "[Plan Request]")>>),
  Seq2(runClaude("plan", "", session, env),
       Return(<<Upd([NoUpdate EXCEPT
                       !.mode = "plan_pending", !.pendingPlan = env.out,
                       !.claudeSessionId =
                          Coalesce(env.tok, session.claudeSessionId)]),
                Msg("assistant", "[Plan]"),
                Reply("plan", env.out, 0)>>))))

\* variant: an execution that runs the agent without the stored plan
handlePlanExecutionWithoutPlan(job, session, env) ==
  Seq2(PrepareBranch(session, env, FALSE),
  Seq2(Return(<<Msg("user", "[Approved]"),
                Upd([NoUpdate EXCEPT !.mode = "normal", !.pendingPlan = Null])>>),
  Seq2(runClaude("full", "", session, env),
  Seq2(Return(<<Msg("assistant", "")>> \o SaveClaudeSessionId(session, env)),
       finalizePRAndReply(session, env)))))

\* the "execution" prompt is buildExecutionPrompt(subject, job.prompt,
\* session.pendingPlan): the approval message and the stored plan
handlePlanExecution(job, session, env) ==
  Seq2(PrepareBranch(session, env, FALSE),
  Seq2(Return(<<Msg("user", "[Approved]"),
                Upd([NoUpdate EXCEPT !.mode = "normal", !.pendingPlan = Null])>>),
  Seq2(runClaude("execution", session.pendingPlan, session, env),
  Seq2(Return(<<Msg("assistant", "")>> \o SaveClaudeSessionId(session, env)),
       finalizePRAndReply(session, env)))))

\* variant: a revision that stores its plan before the agent has run
handlePlanRevisionWritesFirst(job, session, env) ==
  Seq2(PrepareBranch(session, env, FALSE),
  Seq2(Return(<<Msg("user", "[Revision Request]"),
                Upd([NoUpdate EXCEPT !.pendingPlan = env.out])>>),
  Seq2(runClaude("revision", session.pendingPlan, session, env),
       Return(<<Msg("assistant", "[Revised Plan]"),
                Reply("revised-plan", env.out, 0)>>))))

handlePlanRevision(job, session, env) ==
  Seq2(PrepareBranch(session, env, FALSE),
  Seq2(Return(<<Msg("user", "[Revision Request]")>>),
  Seq2(runClaude("revision", session.pendingPlan, session, env),
       Return(<<Upd([NoUpdate EXCEPT
                       !.pendingPlan = env.out,
                       !.claudeSessionId =
                          Coalesce(env.tok, session.claudeSessionId)]),
                Msg("assistant", "[Revised Plan]"),
                Reply("revised-plan", env.out, 0)>>))))

handlePlanPendingReply(job, session, env) ==
  IF detectApproval(job.tokens, job.phrases)
  THEN handlePlanExecution(job, session, env)
  ELSE handlePlanRevision(job, session, env)

\* variant: a cancel that resets the mode and keeps the plan
handleCancelPlanKeepsPlan(job, session, env) ==
  Return(<<Upd([NoUpdate EXCEPT !.mode = "normal"]),
           Msg("user", "[Cancelled]"),
           Reply("cancelled", "", 0)>>)

handleCancelPlan(job, session, env) ==
  Return(<<Upd([NoUpdate EXCEPT !.mode = "normal", !.pendingPlan = Null]),
           Msg("user", "[Cancelled]"),
           Reply("cancelled", "", 0)>>)

handleNormalExecution(job, session, env) ==
  Seq2(PrepareBranch(session, env, TRUE),
  Seq2(Return(<<Msg("user", "")>>),
  Seq2(runClaude("full", "", session, env),
  Seq2(Return(<<Msg("assistant", "")>> \o SaveClaudeSessionId(session, env)),
       finalizePRAndReply(session, env)))))

\* variant: a command without a pull request fails the job
handleCommandThrowsWithoutPR(command, job, session, env) ==
  IF session.prNumber = NoPR THEN Throw(<<Reply("no-pr", "", 0)>>, "no-pr")
  ELSE IF command = "merge"
  THEN IF env.fail = "pr" THEN Throw(<<Reply("error", "", 0)>>, "pr")
       ELSE Return(<<PrOp("mergePR", session.prNumber),
                     Reply("merged", "", session.prNumber)>>)
  ELSE IF command = "close"
  THEN IF env.fail = "pr" THEN Throw(<<Reply("error", "", 0)>>, "pr")
       ELSE Return(<<PrOp("closePR", session.prNumber),
                     Reply("closed", "", session.prNumber)>>)
  ELSE IF command = "status"
  THEN IF env.fail = "url" THEN Throw(<<Reply("error", "", 0)>>, "url")
       ELSE Return(<<PrOp("getPRUrl", session.prNumber),
                     Reply("status", "", session.prNumber)>>)
  ELSE Return(<<>>)

\* merge, close, status; the switch has no case for confirm and cancel
handleCommand(command, job, session, env) ==
  IF session.prNumber = NoPR THEN Return(<<Reply("no-pr", "", 0)>>)
  ELSE IF command = "merge"
  THEN IF env.fail = "pr" THEN Throw(<<Reply("error", "", 0)>>, "pr")
       ELSE Return(<<PrOp("mergePR", session.prNumber),
                     Reply("merged", "", session.prNumber)>>)
  ELSE IF command = "close"
  THEN IF env.fail = "pr" THEN Throw(<<Reply("error", "", 0)>>, "pr")
       ELSE Return(<<PrOp("closePR", session.prNumber),
                     Reply("closed", "", session.prNumber)>>)
  ELSE IF command = "status"
  THEN IF env.fail = "url" THEN Throw(<<Reply("error", "", 0)>>, "url")
       ELSE Return(<<PrOp("getPRUrl", session.prNumber),
                     Reply("status", "", session.prNumber)>>)
  ELSE Return(<<>>)

Dispatch(job, session, env) ==
  LET command == parseCommand(job.tokens)
  IN IF command = "cancel" /\ session.mode = "plan_pending"
     THEN handleCancelPlan(job, session, env)
     ELSE IF command = "confirm" /\ session.mode = "plan_pending"
     THEN handlePlanExecution(job, session, env)
     ELSE IF command # "none" /\ command # "plan"
     THEN handleCommand(command, job, session, env)
     ELSE IF session.mode = "plan_pending"
     THEN handlePlanPendingReply(job, session, env)
     ELSE IF command = "plan" \/ detectPlanTrigger(job.phrases)
     THEN handlePlanRequest(job, session, env)
     ELSE handleNormalExecution(job, session, env)

\* variant: a catch that sends the error reply and does not re-throw
handleEmailJobSwallows(job, session, env) ==
  LET r == Dispatch(job, session, env)
  IN IF r.ok THEN r
     ELSE Return(r.trace \o <<Reply("error", "", 0)>>)

\* the catch of handleEmailJob: an error reply, then the error is re-thrown
handleEmailJob(job, session, env) ==
  LET r == Dispatch(job, session, env)
  IN IF r.ok THEN r
     ELSE [r EXCEPT !.trace = @ \o <<Reply("error", "", 0)>>]

\* the session row after the writes of a run, in order
RECURSIVE ApplyUpdates(_, _)
ApplyUpdates(row, trace) ==
  IF trace = <<>> THEN row
  ELSE ApplyUpdates(IF Head(trace).k = "update"
                    THEN updateSession(row, Head(trace).u) ELSE row,
                    Tail(trace))

Select(trace, kind) == SelectSeq(trace, LAMBDA e : e.k = kind)

\* ------------------------------------------------------------- worker.ts
VARIABLES
  now,        \* Date.now(), in ms
  pending,    \* the list jobs:pending, head first
  retry,      \* the sorted set jobs:retry: {[value, score]}
  failed,     \* the list jobs:failed, head first
  db,         \* the sessions table: session id -> row
  prCount,    \* pull requests the repository has so far
  nextId,     \* jobs the webhook has queued so far
  wpc, wjob, werr,          \* the worker loop: its position, job and error
  ppc, ready, movedCount,   \* each retry processor: position, readyJobs
  t0, took, ret,            \* ... its `now`, what it removed, what it returned
  done,       \* payloads whose processing completed
  attempts,   \* job id -> calls of processJob
  notices,    \* job id -> final failure mails sent by scheduleRetry
  failAt,     \* job id -> time of the last scheduleRetry call
  last,       \* the last run of handleEmailJob: its job, session and outcome
  text,       \* a subject and body given to a function of commands.ts or
              \* session.ts, and what the function returned
  inbox,      \* the mails the webhook received, each with the session it
              \* resolved to and what the worker did for it
  subject_hash,   \* sessions.subject_hash: session id -> hash
  last_activity,  \* sessions.last_activity: session id -> time
  pool,       \* two worker processes on one database: each one's run
  wrote       \* the workers in the order of their writes to the session row

\* the state that only the subject functions, the subject-keyed webhook and
\* the two-worker deployment use
auxVars == <<text, inbox, subject_hash, last_activity, pool, wrote>>

vars == <<now, pending, retry, failed, db, prCount, nextId, wpc, wjob, werr,
          ppc, ready, movedCount, t0, took, ret, done, attempts, notices,
          failAt, last, text, inbox, subject_hash, last_activity, pool, wrote>>

JobIds == 1..MaxJobs
NoJob == [id |-> 0, sid |-> "", tokens |-> {}, phrases |-> {},
          resumeSession |-> FALSE, retryCount |-> AbsentCount]
\* a payload of the pending list that JSON.parse rejects
InvalidPayload == [NoJob EXCEPT !.sid = "invalid-json"]
NoEnv == [fail |-> "none", commits |-> FALSE, out |-> "", tok |-> Null,
          offDefault |-> FALSE, newPr |-> 0]
NoRun == [job |-> NoJob, session |-> getSessionById(NoRow, ""), env |-> NoEnv,
          ok |-> TRUE, err |-> "", trace |-> <<>>]

\* job.retryCount ?? 0
RetryCountOf(job) == IF job.retryCount = AbsentCount THEN 0 ELSE job.retryCount

\* variant: a backoff that grows linearly
calculateRetryDelayLinear(retryCount) == (retryCount + 1) * RetryBaseMs

\* variant: the same delay at every retry
calculateRetryDelayConstant(retryCount) == RetryBaseMs

calculateRetryDelay(retryCount) == Pow2(retryCount) * RetryBaseMs

\* the longest a job with this retry count can still need: its remaining delays
RECURSIVE Remaining(_)
Remaining(rc) ==
  IF rc >= MAX_RETRIES THEN 0 ELSE calculateRetryDelay(rc) + Remaining(rc + 1)

Max(a, b) == IF a >= b THEN a ELSE b
Range(f) == {f[x] : x \in DOMAIN f}

\* the jobs a retry processor has removed from the retry set and not yet pushed
Held == {Head(ready[p]) : p \in {q \in Promoters : ppc[q] = "push"}}
InFlight == IF wpc = "idle" THEN {} ELSE {wjob}

\* The clock is capped at MaxTime: time passes only while every due time that
\* can still be scheduled stays within the cap, and a job is accepted only
\* while its own retries fit.
FitsAt(t) ==
  /\ t <= MaxTime
  /\ \A j \in Range(pending) \cup InFlight \cup Held :
        t + Remaining(RetryCountOf(j)) <= MaxTime
  /\ \A e \in retry :
        Max(e.score, t) + Remaining(RetryCountOf(e.value)) <= MaxTime

Tick ==
  /\ FitsAt(now + TickMs)
  /\ now' = now + TickMs
  /\ UNCHANGED <<pending, retry, failed, db, prCount, nextId, wpc, wjob, werr,
                 ppc, ready, movedCount, t0, took, ret, done, attempts,
                 notices, failAt, last>>
  /\ UNCHANGED auxVars

\* The mails the webhook receives: the bracket tokens of the subject and the
\* phrase classes of subject and body.
WebhookMails ==
  {[tokens |-> {}, phrases |-> {}],
   [tokens |-> {"merge"}, phrases |-> {"approval"}]}

\* The collaborator outcomes a run of the worker can meet.
WorkerEnvs ==
  {[fail |-> f, commits |-> TRUE, out |-> "planA", tok |-> "tok1",
    offDefault |-> FALSE, newPr |-> prCount + 1] :
     f \in {"none", "agent", "url"}}

\* the webhook's resumeSession = session.claudeSessionId !== null
resumeSessionOf(row) == row.claudeSessionId # Null

\* getOrCreateSession
getOrCreateSession(rows, sid) ==
  IF rows[sid].exists THEN rows ELSE [rows EXCEPT ![sid] = NewRow]

\* handleEmailWebhook: resolve the session, build the job (no retryCount),
\* LPUSH it on the pending list.
handleEmailWebhook(sid, mail) ==
  /\ nextId < MaxJobs
  /\ now + Remaining(0) <= MaxTime
  /\ db' = getOrCreateSession(db, sid)
  /\ nextId' = nextId + 1
  /\ pending' = lPush(pending, [id |-> nextId + 1, sid |-> sid,
                                tokens |-> mail.tokens,
                                phrases |-> mail.phrases,
                                resumeSession |->
                                   resumeSessionOf(
                                      getOrCreateSession(db, sid)[sid]),
                                retryCount |-> AbsentCount])
  /\ UNCHANGED <<now, retry, failed, prCount, wpc, wjob, werr, ppc, ready,
                 movedCount, t0, took, ret, done, attempts, notices, failAt,
                 last>>
  /\ UNCHANGED auxVars

\* variant: one more retry before the dead-letter
MaxRetriesExceededStrict(currentRetryCount) == currentRetryCount > MAX_RETRIES
\* variant: one retry fewer before the dead-letter
MaxRetriesExceededEarly(currentRetryCount) ==
  currentRetryCount + 1 >= MAX_RETRIES

\* scheduleRetry: if (currentRetryCount >= MAX_RETRIES)
MaxRetriesExceeded(currentRetryCount) == currentRetryCount >= MAX_RETRIES

\* variant: the counter is not incremented
retryJobSameCount(job, currentRetryCount) ==
  [job EXCEPT !.retryCount = currentRetryCount]
\* variant: the counter is incremented by two
retryJobPlusTwo(job, currentRetryCount) ==
  [job EXCEPT !.retryCount = currentRetryCount + 2]

\* scheduleRetry: retryJob = {...job, retryCount: currentRetryCount + 1}
retryJob(job, currentRetryCount) ==
  [job EXCEPT !.retryCount = currentRetryCount + 1]

\* variant: the dead-letter branch without its `return`
scheduleRetryFallThrough(job, error) ==
  LET currentRetryCount == RetryCountOf(job)
  IN /\ retry' = zAdd(retry, now + calculateRetryDelay(currentRetryCount),
                      retryJob(job, currentRetryCount))
     /\ IF MaxRetriesExceeded(currentRetryCount)
        THEN /\ failed' = lPush(failed, [job |-> job, failedAt |-> now,
                                         lastError |-> error])
             /\ notices' = [notices EXCEPT ![job.id] = @ + 1]
        ELSE UNCHANGED <<failed, notices>>

\* variant: the dead-letter entry without the message of the error
scheduleRetryWithoutError(job, error) ==
  LET currentRetryCount == RetryCountOf(job)
  IN IF MaxRetriesExceeded(currentRetryCount)
     THEN /\ failed' = lPush(failed, [job |-> job, failedAt |-> now,
                                      lastError |-> ""])
          /\ notices' = [notices EXCEPT ![job.id] = @ + 1]
          /\ UNCHANGED retry
     ELSE /\ retry' = zAdd(retry,
                           now + calculateRetryDelay(currentRetryCount),
                           retryJob(job, currentRetryCount))
          /\ UNCHANGED <<failed, notices>>

\* scheduleRetry: dead-letter and final mail once the retries are used up,
\* otherwise ZADD the job, its counter incremented, due after the backoff.
scheduleRetry(job, error) ==
  LET currentRetryCount == RetryCountOf(job)
  IN IF MaxRetriesExceeded(currentRetryCount)
     THEN /\ failed' = lPush(failed, [job |-> job, failedAt |-> now,
                                      lastError |-> error])
          /\ notices' = [notices EXCEPT ![job.id] = @ + 1]
          /\ UNCHANGED retry
     ELSE /\ retry' = zAdd(retry,
                           now + calculateRetryDelay(currentRetryCount),
                           retryJob(job, currentRetryCount))
          /\ UNCHANGED <<failed, notices>>

\* runWorker: BLPOP takes the head of the pending list; a payload that
\* JSON.parse rejects is logged and the loop continues with the next one
WorkerDiscard ==
  /\ wpc = "idle"
  /\ pending # <<>>
  /\ Head(pending) = InvalidPayload
  /\ pending' = Tail(pending)
  /\ last' = [NoRun EXCEPT !.job = InvalidPayload, !.ok = FALSE,
                           !.err = "invalid-json"]
  /\ UNCHANGED <<now, retry, failed, db, prCount, nextId, wpc, wjob, werr, ppc,
                 ready, movedCount, t0, took, ret, done, attempts, notices,
                 failAt>>
  /\ UNCHANGED auxVars

\* variant: a loop that takes the next job while the failed one still waits
\* for scheduleRetry
WorkerDequeueWithoutAwait ==
  /\ wpc \in {"idle", "catch"}
  /\ pending # <<>>
  /\ Head(pending) # InvalidPayload
  /\ wjob' = Head(pending)
  /\ pending' = Tail(pending)
  /\ wpc' = "job"
  /\ UNCHANGED <<now, retry, failed, db, prCount, nextId, werr, ppc, ready,
                 movedCount, t0, took, ret, done, attempts, notices, failAt,
                 last>>
  /\ UNCHANGED auxVars

WorkerDequeue ==
  /\ wpc = "idle"
  /\ pending # <<>>
  /\ Head(pending) # InvalidPayload
  /\ wjob' = Head(pending)
  /\ pending' = Tail(pending)
  /\ wpc' = "job"
  /\ UNCHANGED <<now, retry, failed, db, prCount, nextId, werr, ppc, ready,
                 movedCount, t0, took, ret, done, attempts, notices, failAt,
                 last>>
  /\ UNCHANGED auxVars

\* processJob: load the session, run the handler
processJob(job, env) ==
  IF ~db[job.sid].exists
  THEN [job |-> job, session |-> getSessionById(NoRow, job.sid), env |-> env,
        ok |-> FALSE, err |-> "no-session", trace |-> <<>>]
  ELSE LET session == getSessionById(db[job.sid], job.sid)
           r == handleEmailJob(job, session, env)
       IN [job |-> job, session |-> session, env |-> env,
           ok |-> r.ok, err |-> r.err, trace |-> r.trace]

CreatedPRs(trace) ==
  Cardinality({i \in DOMAIN trace :
                 trace[i].k = "pr" /\ trace[i].s = "createPR"})

\* runWorker: the try around processJob, for the queues and the columns of the
\* session row that the handler reads
tryProcessJob(env) ==
  /\ wpc = "job"
  /\ LET run == processJob(wjob, env)
     IN /\ last' = run
        /\ db' = [db EXCEPT ![wjob.sid] = ApplyUpdates(@, run.trace)]
        /\ prCount' = prCount + CreatedPRs(run.trace)
        /\ attempts' = [attempts EXCEPT ![wjob.id] = @ + 1]
        /\ IF run.ok
           THEN /\ wpc' = "idle"
                /\ done' = done \cup {wjob}
                /\ wjob' = NoJob
                /\ werr' = ""
           ELSE /\ wpc' = "catch"
                /\ werr' = run.err
                /\ UNCHANGED <<wjob, done>>
  /\ UNCHANGED <<now, pending, retry, failed, nextId, ppc, ready, movedCount,
                 t0, took, ret, notices, failAt>>

WorkerProcess(env) ==
  /\ tryProcessJob(env)
  /\ UNCHANGED auxVars

\* runWorker: the catch, which hands the job to scheduleRetry
WorkerScheduleRetry ==
  /\ wpc = "catch"
  /\ scheduleRetry(wjob, werr)
  /\ failAt' = [failAt EXCEPT ![wjob.id] = now]
  /\ wpc' = "idle"
  /\ wjob' = NoJob
  /\ werr' = ""
  /\ UNCHANGED <<now, pending, db, prCount, nextId, ppc, ready, movedCount,
                 t0, took, ret, done, attempts, last>>
  /\ UNCHANGED auxVars

\* processRetryQueue, one Redis command at a time. It runs in the loop of
\* startRetryProcessor, which sleeps RETRY_PROCESSOR_INTERVAL_MS between runs.
\* ZRANGEBYSCORE 0 now; an empty answer returns 0.
RetryScan(p) ==
  /\ ppc[p] = "sleep"
  /\ LET readyJobs == zRangeByScore(retry, 0, now)
     IN IF Len(readyJobs) = 0
        THEN /\ ret' = [ret EXCEPT ![p] = 0]
             /\ UNCHANGED <<ppc, ready, t0>>
        ELSE /\ ppc' = [ppc EXCEPT ![p] = "rem"]
             /\ ready' = [ready EXCEPT ![p] = readyJobs]
             /\ t0' = [t0 EXCEPT ![p] = now]
             /\ UNCHANGED ret
  /\ UNCHANGED <<now, pending, retry, failed, db, prCount, nextId, wpc, wjob,
                 werr, movedCount, took, done, attempts, notices, failAt, last>>
  /\ UNCHANGED auxVars

\* the end of one turn of the for loop; after the last turn the run returns
\* movedCount
NextReady(p, moved) ==
  IF Len(ready[p]) > 1
  THEN /\ ppc' = [ppc EXCEPT ![p] = "rem"]
       /\ ready' = [ready EXCEPT ![p] = Tail(@)]
       /\ movedCount' = [movedCount EXCEPT ![p] = moved]
       /\ UNCHANGED <<ret, t0>>
  ELSE /\ ppc' = [ppc EXCEPT ![p] = "sleep"]
       /\ ready' = [ready EXCEPT ![p] = <<>>]
       /\ movedCount' = [movedCount EXCEPT ![p] = 0]
       /\ ret' = [ret EXCEPT ![p] = moved]
       /\ t0' = [t0 EXCEPT ![p] = 0]

\* ZREM of the head of readyJobs; only the run that removed it goes on to push
RetryRemove(p) ==
  /\ ppc[p] = "rem"
  /\ LET jobJson == Head(ready[p])
         removed == zCard(retry, jobJson)
     IN /\ retry' = zRem(retry, jobJson)
        /\ IF removed > 0
           THEN /\ ppc' = [ppc EXCEPT ![p] = "push"]
                /\ took' = [took EXCEPT ![p] = @ \cup {jobJson}]
                /\ UNCHANGED <<ready, movedCount, ret, t0>>
           ELSE /\ NextReady(p, movedCount[p])
                /\ took' = IF Len(ready[p]) > 1 THEN took
                           ELSE [took EXCEPT ![p] = {}]
  /\ UNCHANGED <<now, pending, failed, db, prCount, nextId, wpc, wjob, werr,
                 done, attempts, notices, failAt, last>>
  /\ UNCHANGED auxVars

\* RPUSH of the removed job on the pending list, movedCount++
RetryPush(p) ==
  /\ ppc[p] = "push"
  /\ pending' = rPush(pending, Head(ready[p]))
  /\ NextReady(p, movedCount[p] + 1)
  /\ took' = IF Len(ready[p]) > 1 THEN took ELSE [took EXCEPT ![p] = {}]
  /\ UNCHANGED <<now, retry, failed, db, prCount, nextId, wpc, wjob, werr,
                 done, attempts, notices, failAt, last>>
  /\ UNCHANGED auxVars

\* nothing given to a function yet
NoText == [fn |-> "", subject |-> <<>>, phrases |-> {}, out |-> ""]

\* two worker processes started on the same Redis and the same database
RaceWorkers == {"w1", "w2"}
NoTask == [pc |-> "idle", read |-> NoRow, all |-> <<>>, rest |-> <<>>]

InitProgram ==
  /\ now = 0
  /\ pending = <<>>
  /\ retry = {}
  /\ failed = <<>>
  /\ db = [s \in Range(SessionIds) |-> NoRow]
  /\ prCount = 0
  /\ nextId = 0
  /\ wpc = "idle"
  /\ wjob = NoJob
  /\ werr = ""
  /\ ppc = [p \in Promoters |-> "sleep"]
  /\ ready = [p \in Promoters |-> <<>>]
  /\ movedCount = [p \in Promoters |-> 0]
  /\ t0 = [p \in Promoters |-> 0]
  /\ took = [p \in Promoters |-> {}]
  /\ ret = [p \in Promoters |-> 0]
  /\ done = {}
  /\ attempts = [j \in JobIds |-> 0]
  /\ notices = [j \in JobIds |-> 0]
  /\ failAt = [j \in JobIds |-> 0]
  /\ last = NoRun
  /\ inbox = <<>>
  /\ subject_hash = [s \in Range(SessionIds) |-> NoHash]
  /\ last_activity = [s \in Range(SessionIds) |-> 0]
  /\ pool = [w \in RaceWorkers |-> NoTask]
  /\ wrote = <<>>

Init == InitProgram /\ text = NoText

Webhook == \E sid \in Sessions, mail \in WebhookMails : handleEmailWebhook(sid, mail)
Process == \E env \in WorkerEnvs : WorkerProcess(env)
Worker == WorkerDequeue \/ Process \/ WorkerScheduleRetry
Promoter(p) == RetryScan(p) \/ RetryRemove(p) \/ RetryPush(p)

Next ==
  \/ Tick
  \/ Webhook
  \/ WorkerDequeue
  \/ Process
  \/ WorkerScheduleRetry
  \/ \E p \in Promoters : RetryScan(p)
  \/ \E p \in Promoters : RetryRemove(p)
  \/ \E p \in Promoters : RetryPush(p)

Spec == Init /\ [][Next]_vars

\* One worker process: the worker loop and its one retry processor, each an
\* endless loop that is scheduled again and again, and a clock that advances.
NextOne ==
  \/ Tick
  \/ Webhook
  \/ WorkerDequeue
  \/ Process
  \/ WorkerScheduleRetry
  \/ RetryScan("p1")
  \/ RetryRemove("p1")
  \/ RetryPush("p1")

FairSpec ==
  /\ Init
  /\ [][NextOne]_vars
  /\ WF_vars(Tick)
  /\ WF_vars(WorkerDequeue)
  /\ WF_vars(Process)
  /\ WF_vars(WorkerScheduleRetry)
  /\ WF_vars(RetryScan("p1"))
  /\ WF_vars(RetryRemove("p1"))
  /\ WF_vars(RetryPush("p1"))

\* --------------------------------- one worker process and what reaches it
\* Every kind of mail, every collaborator failure, a payload on the pending
\* list that is no JSON, and a shutdown signal.
LoopMails ==
  {[tokens |-> {}, phrases |-> {}],
   [tokens |-> {"plan"}, phrases |-> {}],
   [tokens |-> {"status"}, phrases |-> {}]}

LoopEnvs ==
  {[fail |-> f, commits |-> TRUE, out |-> "planA", tok |-> "tok1",
    offDefault |-> FALSE, newPr |-> prCount + 1] : f \in FailPoints}

WebhookAny ==
  \E sid \in Sessions, mail \in LoopMails : handleEmailWebhook(sid, mail)

ProcessAny == \E env \in LoopEnvs : WorkerProcess(env)

\* another writer of jobs:pending leaves a string that is no JSON
PushInvalid ==
  /\ InvalidPayload \notin Range(pending)
  /\ pending' = lPush(pending, InvalidPayload)
  /\ UNCHANGED <<now, retry, failed, db, prCount, nextId, wpc, wjob, werr, ppc,
                 ready, movedCount, t0, took, ret, done, attempts, notices,
                 failAt, last>>
  /\ UNCHANGED auxVars

\* SIGINT / SIGTERM: the handler closes the database and calls
\* process.exit(0); both loops stop where they are
Shutdown ==
  /\ wpc # "exit"
  /\ wpc' = "exit"
  /\ ppc' = [p \in Promoters |-> "exit"]
  /\ UNCHANGED <<now, pending, retry, failed, db, prCount, nextId, wjob, werr,
                 ready, movedCount, t0, took, ret, done, attempts, notices,
                 failAt, last>>
  /\ UNCHANGED auxVars

LoopNext ==
  \/ Tick
  \/ WebhookAny
  \/ PushInvalid
  \/ WorkerDiscard
  \/ WorkerDequeue
  \/ ProcessAny
  \/ WorkerScheduleRetry
  \/ RetryScan("p1")
  \/ RetryRemove("p1")
  \/ RetryPush("p1")
  \/ Shutdown

LoopSpec == Init /\ [][LoopNext]_vars

\* ------------------------------------------- handleEmailJob called directly
\* The Session objects a caller hands to handleEmailJob: the stored row plus
\* the plan-mode fields of the Session the handler reads.
PlanStates ==
  {[mode |-> "normal", pendingPlan |-> Null],
   [mode |-> "plan_pending", pendingPlan |-> "planA"]}

HandlerMails ==
  {[tokens |-> {}, phrases |-> {}],
   [tokens |-> {}, phrases |-> {"approval"}],
   [tokens |-> {}, phrases |-> {"approval", "revision"}],
   [tokens |-> {"plan"}, phrases |-> {}],
   [tokens |-> {"plan"}, phrases |-> {"approval"}],
   [tokens |-> {"confirm"}, phrases |-> {"revision"}],
   [tokens |-> {"cancel"}, phrases |-> {}],
   [tokens |-> {"status"}, phrases |-> {"approval"}],
   [tokens |-> {"status"}, phrases |-> {}],
   [tokens |-> {"plan", "confirm"}, phrases |-> {}],
   [tokens |-> {"plan", "cancel"}, phrases |-> {}]}

HandlerEnvs ==
  {[fail |-> f, commits |-> c, out |-> "planB", tok |-> "tok1",
    offDefault |-> o, newPr |-> prCount + 1] :
     f \in FailPoints, c \in BOOLEAN, o \in BOOLEAN}

HandlerCall(sid, mail, plan, env) ==
  /\ nextId < MaxCalls
  /\ LET rows == getOrCreateSession(db, sid)
         job == [id |-> 1, sid |-> sid, tokens |-> mail.tokens,
                 phrases |-> mail.phrases,
                 resumeSession |-> resumeSessionOf(rows[sid]),
                 retryCount |-> AbsentCount]
         session == [getSessionById(rows[sid], sid) EXCEPT
                       !.mode = plan.mode, !.pendingPlan = plan.pendingPlan]
         r == handleEmailJob(job, session, env)
     IN /\ last' = [job |-> job, session |-> session, env |-> env,
                    ok |-> r.ok, err |-> r.err, trace |-> r.trace]
        /\ db' = [rows EXCEPT ![sid] = ApplyUpdates(@, r.trace)]
        /\ prCount' = prCount + CreatedPRs(r.trace)
  /\ nextId' = nextId + 1
  /\ UNCHANGED <<now, pending, retry, failed, wpc, wjob, werr, ppc, ready,
                 movedCount, t0, took, ret, done, attempts, notices, failAt>>
  /\ UNCHANGED auxVars

HandlerNext ==
  \E sid \in Sessions, mail \in HandlerMails, plan \in PlanStates,
     env \in HandlerEnvs : HandlerCall(sid, mail, plan, env)

HandlerSpec == Init /\ [][HandlerNext]_vars

\* ------------------------------- the functions of a subject, called alone
\* everything but `text`
programVars ==
  <<now, pending, retry, failed, db, prCount, nextId, wpc, wjob, werr, ppc,
    ready, movedCount, t0, took, ret, done, attempts, notices, failAt, last,
    inbox, subject_hash, last_activity, pool, wrote>>

\* the longest subject is made of MaxPieces pieces
MaxPieces == 3

\* subjects with well-formed tokens in several cases, tokens with a missing
\* bracket or inner white space, and other text
CommandPieces ==
  {<<"[", "m", "e", "r", "g", "e", "]">>,
   <<"[", "C", "L", "O", "S", "E", "]">>,
   <<"[", "S", "t", "a", "t", "u", "s", "]">>,
   <<"[", "p", "l", "a", "n", "]">>,
   <<"[", "C", "o", "n", "f", "i", "r", "m", "]">>,
   <<"[", "c", "a", "n", "c", "e", "l", "]">>,
   <<"[", "m", "e", "r", "g", "e">>,
   <<"c", "l", "o", "s", "e", "]">>,
   <<"[", " ", "p", "l", "a", "n", " ", "]">>,
   <<"x", " ">>}

\* subjects with reply and forward prefixes, white space and letters
HashPieces ==
  {<<"R", "e", ":">>, <<"R", "E", ":", " ">>, <<"f", "w", "d", ":">>,
   <<"F", "W", ":", " ">>, <<"F", "w", ":">>, <<" ">>, <<"a">>, <<"A">>,
   <<"b">>}

RECURSIVE SubjectsOf(_, _)
SubjectsOf(pieces, n) ==
  IF n = 0 THEN {<<>>}
  ELSE LET shorter == SubjectsOf(pieces, n - 1)
       IN shorter \cup {s \o q : s \in shorter, q \in pieces}

TextSubjects ==
  SubjectsOf(CommandPieces, MaxPieces) \cup SubjectsOf(HashPieces, MaxPieces)

TextInit ==
  /\ InitProgram
  /\ text \in {[fn |-> "", subject |-> s, phrases |-> ph, out |-> ""] :
                 s \in TextSubjects, ph \in SUBSET Phrases}

parseCommandCall ==
  /\ text.fn = ""
  /\ text' = [text EXCEPT !.fn = "parseCommand",
                          !.out = parseCommand(SubjectTokens(text.subject))]
  /\ UNCHANGED programVars

detectApprovalCall ==
  /\ text.fn = ""
  /\ text' = [text EXCEPT !.fn = "detectApproval",
                          !.out = detectApproval(SubjectTokens(text.subject),
                                                 text.phrases)]
  /\ UNCHANGED programVars

hashSubjectCall ==
  /\ text.fn = ""
  /\ text' = [text EXCEPT !.fn = "hashSubject",
                          !.out = hashSubject(text.subject)]
  /\ UNCHANGED programVars

TextNext == parseCommandCall \/ detectApprovalCall \/ hashSubjectCall

TextSpec == TextInit /\ [][TextNext]_vars

\* ------------------------------------ the webhook, keyed by the subject
Str_Re == <<"R", "e", ":", " ">>
Str_Thread == <<"a">>

\* the subjects of the mails that arrive: a thread, replies to it, replies
\* with a bracket command added, and another thread
ThreadSubjects ==
  {Str_Thread,
   Str_Re \o Str_Thread,
   Str_Re \o Str_Thread \o <<" ">> \o TokenText["merge"],
   Str_Thread \o <<" ">> \o TokenText["plan"],
   Str_Re \o Str_Thread \o <<" ">> \o TokenText["plan"],
   Str_Re \o Str_Thread \o <<" ">> \o TokenText["plan"]
      \o <<" ">> \o TokenText["confirm"],
   Str_Re \o Str_Thread \o <<" ">> \o TokenText["plan"]
      \o <<" ">> \o TokenText["cancel"],
   <<"b">>}

\* variant: a lookup that finds no row
getSessionFindsNone(subjectHash) == {}

\* getSession: SELECT ... WHERE subject_hash = ?
getSession(subjectHash) ==
  {s \in Range(SessionIds) :
     db[s].exists /\ subject_hash[s] = subjectHash}

\* generateSessionId: an id that no row has
generateSessionId ==
  SessionIds[CHOOSE i \in DOMAIN SessionIds :
               /\ ~db[SessionIds[i]].exists
               /\ \A j \in 1..(i - 1) : db[SessionIds[j]].exists]

\* handleEmailWebhook with getOrCreateSession as session.ts has it: the
\* session is the row with the hash of the subject, its last_activity set to
\* now, or a new row; the job is built from the subject and LPUSHed.
ReceiveEmail(subject) ==
  /\ nextId < MaxJobs
  /\ now + Remaining(0) <= MaxTime
  /\ \E s \in Range(SessionIds) : ~db[s].exists
  /\ LET subjectHash == hashSubject(subject)
         existing == getSession(subjectHash)
         sid == IF existing # {} THEN CHOOSE s \in existing : TRUE
                ELSE generateSessionId
     IN /\ db' = IF existing # {} THEN db ELSE [db EXCEPT ![sid] = NewRow]
        /\ subject_hash' = [subject_hash EXCEPT ![sid] = subjectHash]
        /\ last_activity' = [last_activity EXCEPT ![sid] = now]
        /\ pending' = lPush(pending, [id |-> nextId + 1, sid |-> sid,
                                      tokens |-> SubjectTokens(subject),
                                      phrases |-> {},
                                      resumeSession |->
                                         existing # {}
                                         /\ resumeSessionOf(db[sid]),
                                      retryCount |-> AbsentCount])
        /\ inbox' = Append(inbox,
                           [subject |-> subject, sid |-> sid,
                            after |-> {i \in DOMAIN inbox : inbox[i].processed},
                            processed |-> FALSE, trace |-> <<>>])
  /\ nextId' = nextId + 1
  /\ UNCHANGED <<now, retry, failed, prCount, wpc, wjob, werr, ppc, ready,
                 movedCount, t0, took, ret, done, attempts, notices, failAt,
                 last, text, pool, wrote>>

ThreadEnvs ==
  {[fail |-> "none", commits |-> TRUE, out |-> "planA", tok |-> "tok1",
    offDefault |-> FALSE, newPr |-> prCount + 1]}

\* the worker's try around processJob; every updateSession of the run sets
\* last_activity
ThreadProcess(env) ==
  /\ tryProcessJob(env)
  /\ LET run == processJob(wjob, env)
     IN /\ inbox' = [inbox EXCEPT ![wjob.id] =
                       [@ EXCEPT !.processed = TRUE, !.trace = run.trace]]
        /\ last_activity' =
              IF Select(run.trace, "update") # <<>>
              THEN [last_activity EXCEPT ![wjob.sid] = now]
              ELSE last_activity
  /\ UNCHANGED <<text, subject_hash, pool, wrote>>

ThreadNext ==
  \/ Tick
  \/ \E subject \in ThreadSubjects : ReceiveEmail(subject)
  \/ WorkerDequeue
  \/ \E env \in ThreadEnvs : ThreadProcess(env)

ThreadSpec == Init /\ [][ThreadNext]_vars

\* ------------------------------ two workers, two jobs of one session
\* Each worker runs processJob on a job of session s1: it reads the row once,
\* at the start, and its writes and collaborator calls then happen one at a
\* time, interleaved with those of the other worker.
RaceMails ==
  {[tokens |-> {}, phrases |-> {}],
   [tokens |-> {"plan"}, phrases |-> {}]}

\* what the collaborators return to each worker
RaceEnvs(w) ==
  {[fail |-> f, commits |-> TRUE, out |-> "planA",
    tok |-> IF w = "w1" THEN "tok1" ELSE "tok2",
    offDefault |-> FALSE,
    newPr |-> IF w = "w1" THEN 1 ELSE 2] : f \in {"none", "agent"}}

\* processJob up to the first call of the handler that leaves it
RaceStart(w, mail, env) ==
  /\ pool[w].pc = "idle"
  /\ LET rows == getOrCreateSession(db, "s1")
         job == [id |-> IF w = "w1" THEN 1 ELSE 2, sid |-> "s1",
                 tokens |-> mail.tokens, phrases |-> mail.phrases,
                 resumeSession |-> resumeSessionOf(rows["s1"]),
                 retryCount |-> AbsentCount]
         r == handleEmailJob(job, getSessionById(rows["s1"], "s1"), env)
     IN /\ db' = rows
        /\ pool' = [pool EXCEPT ![w] =
                      [pc |-> "run", read |-> rows["s1"],
                       all |-> r.trace, rest |-> r.trace]]
  /\ UNCHANGED <<now, pending, retry, failed, prCount, nextId, wpc, wjob, werr,
                 ppc, ready, movedCount, t0, took, ret, done, attempts,
                 notices, failAt, last, text, inbox, subject_hash,
                 last_activity, wrote>>

\* the next call of the handler: an updateSession writes the row
RaceStep(w) ==
  /\ pool[w].pc = "run"
  /\ LET e == Head(pool[w].rest)
     IN /\ db' = IF e.k = "update"
                 THEN [db EXCEPT !["s1"] = updateSession(@, e.u)] ELSE db
        /\ wrote' = IF e.k = "update" THEN Append(wrote, w) ELSE wrote
        /\ prCount' = prCount + CreatedPRs(<<e>>)
        /\ pool' = [pool EXCEPT ![w].rest = Tail(@),
                                ![w].pc = IF Len(pool[w].rest) = 1
                                          THEN "done" ELSE "run"]
  /\ UNCHANGED <<now, pending, retry, failed, nextId, wpc, wjob, werr, ppc,
                 ready, movedCount, t0, took, ret, done, attempts, notices,
                 failAt, last, text, inbox, subject_hash, last_activity>>

RaceNext ==
  \/ \E w \in RaceWorkers, mail \in RaceMails :
        \E env \in RaceEnvs(w) : RaceStart(w, mail, env)
  \/ \E w \in RaceWorkers : RaceStep(w)

RaceSpec == Init /\ [][RaceNext]_vars

\* ------------------------------------------------------------- properties
\* where the payload of a job is
PendingJobs == Range(pending)
RetryJobs == {e.value : e \in retry}
FailedJobs == {failed[i].job : i \in DOMAIN failed}
Live == PendingJobs \cup RetryJobs \cup Held \cup InFlight
Payloads == Live \cup FailedJobs \cup done
Dead(id) == \E j \in FailedJobs : j.id = id
Done(id) == \E j \in done : j.id = id

\* the step of the worker's catch in which scheduleRetry runs
RetryStep == wpc = "catch" /\ wpc' = "idle"

\* C1: scheduleRetry for a job whose retryCount is already 3 pushes the job,
\* with the error and the time of failure, on the dead-letter list, sends one
\* final failure mail, adds nothing to the retry set or the pending list and
\* leaves the job's retryCount as it was.
C1_ExhaustedJobIsDeadLettered ==
  [][(RetryStep /\ RetryCountOf(wjob) >= 3) =>
       /\ failed' = <<[job |-> wjob, failedAt |-> now, lastError |-> werr]>>
                      \o failed
       /\ werr # ""
       /\ Head(failed').job.retryCount = wjob.retryCount
       /\ notices' = [notices EXCEPT ![wjob.id] = notices[wjob.id] + 1]
       /\ retry' = retry
       /\ pending' = pending]_vars

C1_Witness ==
  \E i \in DOMAIN failed :
     /\ failed[i].job.retryCount = 3
     /\ failed[i].lastError # ""
     /\ notices[failed[i].job.id] = 1

\* C2: scheduleRetry for a job with retryCount 0 (or none), 1 or 2 adds
\* exactly one entry to the retry set, due 1000, 2000 or 4000 ms after the
\* call, and adds nothing to the dead-letter list.
C2_BackoffDelays ==
  [][(RetryStep /\ RetryCountOf(wjob) \in {0, 1, 2}) =>
       LET rc == RetryCountOf(wjob)
           entry == [value |-> [wjob EXCEPT !.retryCount = rc + 1],
                     score |-> now + <<1000, 2000, 4000>>[rc + 1]]
       IN /\ entry \notin retry
          /\ retry' = retry \cup {entry}
          /\ failed' = failed
          /\ notices' = notices]_vars

\* a job scheduled for its third retry, while another waits for its second
C2_Witness ==
  /\ \E e \in retry :
        e.value.retryCount = 3 /\ e.score = failAt[e.value.id] + 4000
  /\ \E e \in retry :
        e.value.retryCount = 2 /\ e.score = failAt[e.value.id] + 2000

\* the places that hold a payload of job `id`
Occurrences(id) ==
  Cardinality({i \in DOMAIN pending : pending[i].id = id})
  + Cardinality({e \in retry : e.value.id = id})
  + Cardinality({p \in Promoters : ppc[p] = "push" /\ Head(ready[p]).id = id})
  + (IF wpc # "idle" /\ wjob.id = id THEN 1 ELSE 0)
  + Cardinality({i \in DOMAIN failed : failed[i].job.id = id})
  + Cardinality({j \in done : j.id = id})

\* C3: however the runs of the retry processors (two of them at once
\* included), the webhook and the worker's dequeue interleave, a job is never
\* lost and never duplicated: every queued job is in exactly one place, so a
\* promoted job is never in the pending list and the retry set at once.
C3_NoLossNoDuplicate == \A id \in 1..nextId : Occurrences(id) = 1

\* a second run is about to ZREM a job the first run has already promoted
C3_Witness ==
  \E p \in Promoters :
     /\ ppc[p] = "rem"
     /\ \E i \in DOMAIN pending : pending[i] = Head(ready[p])
     /\ Head(ready[p]) \notin RetryJobs

\* C4: a run of processRetryQueue that reads the clock at t0 takes the
\* entries due at t0 and no other, removes and pushes them with their payload
\* unchanged, returns the number it moved, and leaves the entries due later.
C4_PromotesExactlyDue ==
  [][\A p \in Promoters :
       /\ (ppc[p] = "sleep" /\ ppc'[p] = "rem") =>
            /\ t0'[p] = now
            /\ Range(ready'[p]) = {e.value : e \in {x \in retry : x.score <= now}}
       /\ (ppc[p] = "rem" /\ ppc'[p] = "push") =>
            \E e \in retry : /\ e.value = Head(ready[p])
                             /\ e.score <= t0[p]
                             /\ retry' = retry \ {e}
       /\ (ppc[p] = "push" /\ ppc'[p] # "push") =>
            /\ pending' = Append(pending, Head(ready[p]))
            /\ Head(ready[p]) \in took[p]
       /\ (ppc[p] # "sleep" /\ ppc'[p] = "sleep") =>
            /\ ret'[p] = Cardinality(took[p])
            /\ \A e \in retry' : e.score > t0[p]]_vars

\* a run has returned after moving a job, and a job due later is still there
C4_Witness ==
  \E p \in Promoters :
     /\ ppc[p] = "sleep"
     /\ ret[p] >= 1
     /\ \E i \in DOMAIN pending : pending[i].retryCount >= 1
     /\ \E e \in retry : e.score > now

CountsOf(id) == {RetryCountOf(j) : j \in {x \in Payloads : x.id = id}}

\* C5: a job's retryCount never decreases; it grows by exactly one in each
\* step in which scheduleRetry puts the job into the retry set, and in no
\* other step.
C5_RetryCountMonotonic ==
  [][/\ \A id \in JobIds : \A c \in CountsOf(id) : \A d \in CountsOf(id)' :
          /\ d >= c
          /\ d # c => /\ d = c + 1
                      /\ RetryStep
                      /\ wjob.id = id
                      /\ \E e \in retry' \ retry :
                            e.value.id = id /\ e.value.retryCount = d
     /\ (RetryStep /\ retry' # retry) =>
          \E e \in retry' \ retry :
             /\ e.value.id = wjob.id
             /\ e.value.retryCount = RetryCountOf(wjob) + 1]_vars

C5_Witness ==
  \E e \in retry : e.value.retryCount = 2 /\ attempts[e.value.id] = 2

\* an attempt of a retried job starts no earlier than the backoff after the
\* failure before it: 1 s, 2 s, 4 s
BackoffRespected ==
  (wpc = "job" /\ RetryCountOf(wjob) >= 1) =>
     now >= failAt[wjob.id] + <<1000, 2000, 4000>>[RetryCountOf(wjob)]

DeadLetterEntries(id) == {i \in DOMAIN failed : failed[i].job.id = id}

\* C6: with the worker loop and the retry processor scheduled fairly, a job
\* that fails at every attempt is processed four times (three retries, after
\* backoffs of 1 s, 2 s and 4 s) and then is on the dead-letter list, once,
\* with its last error, and one final failure mail has been sent.
C6_AlwaysFailingJobIsDeadLettered ==
  /\ [](/\ BackoffRespected
        /\ \A id \in JobIds :
              /\ attempts[id] <= 4
              /\ notices[id] <= 1
              /\ Cardinality(DeadLetterEntries(id)) <= 1
              /\ Dead(id) =>
                   /\ attempts[id] = 4
                   /\ notices[id] = 1
                   /\ ~Done(id)
                   /\ \A i \in DeadLetterEntries(id) :
                         /\ failed[i].lastError # ""
                         /\ failed[i].job.retryCount = 3)
  /\ \A id \in JobIds : (nextId >= id) ~> (Dead(id) \/ Done(id))

C6_Witness ==
  \E id \in JobIds :
     /\ Dead(id)
     /\ attempts[id] = 4
     /\ notices[id] = 1
     /\ now >= 7000

\* C7: a job that fails twice and then succeeds is processed three times,
\* each retry after its backoff; afterwards it has no dead-letter entry, is
\* in neither the pending list nor the retry set, and was last processed with
\* retryCount = 2. (In general: a completed job was processed once more than
\* its retryCount, and is processed no more.)
C7_FailTwiceThenSucceed ==
  /\ [](/\ BackoffRespected
        /\ \A j \in done :
              /\ attempts[j.id] = RetryCountOf(j) + 1
              /\ RetryCountOf(j) = 2 => attempts[j.id] = 3
              /\ ~Dead(j.id)
              /\ \A x \in Live : x.id # j.id)
  /\ [][done \subseteq done']_vars

C7_Witness ==
  \E j \in done :
     /\ j.retryCount = 2
     /\ attempts[j.id] = 3
     /\ failed = <<>>
     /\ now >= 3000

\* C8: a dead-lettered job is never again in the pending list, in the retry
\* set or in the worker's hands, and is not processed again; the dead-letter
\* list only grows, at its head.
C8_DeadLetterIsFinal ==
  [][/\ Len(failed') >= Len(failed)
     /\ SubSeq(failed', Len(failed') - Len(failed) + 1, Len(failed')) = failed
     /\ \A id \in JobIds :
          Dead(id) => /\ attempts'[id] = attempts[id]
                      /\ \A x \in Live' : x.id # id
                      /\ \A j \in done' : j.id # id]_vars

\* the clock, the worker and the retry processors went on after a dead-letter
C8_Witness ==
  \E i \in DOMAIN failed :
     /\ now > failed[i].failedAt
     /\ \E j \in done : j.id # failed[i].job.id /\ j.retryCount >= 1

\* ---- the handler
AgentRuns(trace) == Select(trace, "agent")
ClearsPlan(trace) ==
  \E i \in DOMAIN trace :
     trace[i] = Upd([NoUpdate EXCEPT !.mode = "normal", !.pendingPlan = Null])
Replies(trace, kind) ==
  {i \in DOMAIN trace : trace[i].k = "reply" /\ trace[i].s = kind}

\* C9: for a session in plan_pending, a job whose subject carries [cancel]
\* sets the session to normal, clears the pending plan, sends the
\* cancellation acknowledgment and does not invoke the agent.
C9_CancelClearsPlan ==
  (last.session.mode = "plan_pending" /\ "cancel" \in last.job.tokens) =>
     /\ AgentRuns(last.trace) = <<>>
     /\ ClearsPlan(last.trace)
     /\ Replies(last.trace, "cancelled") # {}

\* the subject carries [confirm], or the text is an approval with no revision
\* phrase; the subject carries no other command
ApprovalMail(job) ==
  /\ job.tokens \cap {"merge", "close", "status", "cancel"} = {}
  /\ \/ "confirm" \in job.tokens
     \/ "approval" \in job.phrases /\ "revision" \notin job.phrases

OtherMail(job) ==
  /\ "cancel" \notin job.tokens
  /\ "confirm" \notin job.tokens
  /\ ~("approval" \in job.phrases /\ "revision" \notin job.phrases)

\* C11: for a session in plan_pending, every job that is neither a cancel nor
\* an approval, whatever else its subject holds, is a revision: the agent runs
\* on the revision prompt with the stored plan, the pending plan is
\* overwritten with its output, the mode is left as it is and the revised plan
\* is the reply.
C11_OtherMailIsRevision ==
  (last.session.mode = "plan_pending" /\ OtherMail(last.job) /\ last.ok) =>
     LET tr == last.trace
     IN /\ AgentRuns(tr) = <<Agent("revision", last.session.pendingPlan,
                                   last.session.claudeSessionId)>>
        /\ \E i \in DOMAIN tr :
              tr[i].k = "update" /\ tr[i].u.pendingPlan = last.env.out
        /\ \A i \in DOMAIN tr : tr[i].k = "update" => tr[i].u.mode = Undefined
        /\ Last(tr) = Reply("revised-plan", last.env.out, 0)

\* the subject carries [plan], or the text matches a plan trigger, and the
\* subject carries no other command
PlanRequestMail(job) ==
  /\ "plan" \in job.tokens \/ "plan" \in job.phrases
  /\ job.tokens \cap {"merge", "close", "status", "confirm", "cancel"} = {}

\* what a plan request does apart from the session it leaves
PlanRequestRun ==
  /\ AgentRuns(last.trace) = <<Agent("plan", "", last.session.claudeSessionId)>>
  /\ Last(last.trace) = Reply("plan", last.env.out, 0)
  /\ Select(last.trace, "pr") = <<>>

\* C12: for a session in normal, a plan request runs the agent on the plan
\* prompt, replies with the plan, touches no pull request, and leaves the
\* stored session in plan_pending with the agent's output as pending plan, so
\* that the session the worker loads for the next job is in plan_pending.
C12_PlanRequestEntersPlanPending ==
  (last.ok /\ last.session.mode # "plan_pending" /\ PlanRequestMail(last.job)) =>
     /\ PlanRequestRun
     /\ LET stored == getSessionById(db[last.job.sid], last.job.sid)
        IN /\ stored.mode = "plan_pending"
           /\ stored.pendingPlan = last.env.out

\* no command in the subject and no plan trigger in the text
PlainMail(job) == job.tokens = {} /\ "plan" \notin job.phrases

\* C13: for a session in normal and a job with no special intent whose agent
\* run leaves commits: without a pull request exactly one is created and its
\* number stored in the session; with one, a comment is added to it and none
\* is created; either way the reply carries the pull request.
C13_OnePullRequestPerSession ==
  (last.session.mode = "normal" /\ PlainMail(last.job) /\ last.env.commits) =>
     LET tr == last.trace
         had == last.session.prNumber
     IN /\ CreatedPRs(tr) <= 1
        /\ had # NoPR => CreatedPRs(tr) = 0
        /\ last.ok =>
             IF had = NoPR
             THEN /\ Select(tr, "pr") = <<PrOp("createPR", last.env.newPr),
                                          PrOp("getPRUrl", last.env.newPr)>>
                  /\ last.env.newPr # NoPR
                  /\ db[last.job.sid].prNumber = last.env.newPr
                  /\ Last(tr) = Reply("success", "", last.env.newPr)
             ELSE /\ Select(tr, "pr") = <<PrOp("commentOnPR", had),
                                          PrOp("getPRUrl", had)>>
                  /\ db[last.job.sid].prNumber = had
                  /\ Last(tr) = Reply("success", "", had)

\* a second mail of the session was answered with a comment on its pull request
C13_Witness ==
  /\ last.ok
  /\ last.session.mode = "normal"
  /\ PlainMail(last.job)
  /\ last.env.commits
  /\ last.session.prNumber = 1
  /\ prCount = 1
  /\ Select(last.trace, "pr") = <<PrOp("commentOnPR", 1), PrOp("getPRUrl", 1)>>

\* the replies that answer a transition (not the error mail, not the notice
\* about the branch)
TransitionReplies(trace) ==
  {i \in DOMAIN trace :
     trace[i].k = "reply" /\ trace[i].s \notin {"error", "branch-notice"}}
LoggedBefore(trace, i, role) ==
  \E k \in DOMAIN trace : k < i /\ trace[k].k = "msg" /\ trace[k].s = role

\* C14: in every transition the triggering message, and the agent's output
\* when the agent ran, is appended to the session's message log before the
\* reply of the transition is sent.
C14_LoggedBeforeReply ==
  \A i \in TransitionReplies(last.trace) :
     /\ LoggedBefore(last.trace, i, "user")
     /\ AgentRuns(last.trace) # <<>> => LoggedBefore(last.trace, i, "assistant")

\* the mode and the pending plan that the updateSession calls of a run ask
\* the store to hold, starting from those of the Session the run was given
RECURSIVE PlanStateAfter(_, _)
PlanStateAfter(st, trace) ==
  IF trace = <<>> THEN st
  ELSE LET h == Head(trace)
           nst == IF h.k # "update" THEN st
                  ELSE [mode |-> IF h.u.mode # Undefined
                                 THEN h.u.mode ELSE st.mode,
                        pendingPlan |-> IF h.u.pendingPlan # Undefined
                                        THEN h.u.pendingPlan
                                        ELSE st.pendingPlan]
       IN PlanStateAfter(nst, Tail(trace))

HasPendingPlan(st) == st.pendingPlan \notin {Null, Undefined}
PlanConsistent(st) == HasPendingPlan(st) <=> st.mode = "plan_pending"
PlanStateOf(session) ==
  [mode |-> session.mode, pendingPlan |-> session.pendingPlan]

CommandMail(job) == job.tokens \cap {"merge", "close", "status"} # {}

\* the call of the pull-request collaborator a command makes, and its reply
Delegated(command, pr) ==
  IF command = "merge"
  THEN <<PrOp("mergePR", pr), Reply("merged", "", pr)>>
  ELSE IF command = "close"
  THEN <<PrOp("closePR", pr), Reply("closed", "", pr)>>
  ELSE <<PrOp("getPRUrl", pr), Reply("status", "", pr)>>

C17_EveryFailureIsReported ==
  ~last.ok => Replies(last.trace, "error") # {}

\* C18: a dequeued payload that is no valid job is reported to the requester
\* at once and is not retried: it enters neither the retry set nor the
\* dead-letter list, and the worker goes on with the next payload.
C18_InvalidPayloadIsReported ==
  last.job = InvalidPayload =>
     /\ last.trace # <<>>
     /\ InvalidPayload \notin RetryJobs \cup FailedJobs \cup InFlight

\* C19: a failure in any step of the handling (branch set-up, agent, creation
\* of or comment on the pull request, its URL) is not swallowed: the handler
\* sends the error reply and re-throws, the worker's catch gets the error,
\* and scheduleRetry leaves the job in the retry set or on the dead-letter
\* list.
C19_FailureIsNeverSwallowed ==
  [][/\ (wpc = "job" /\ wpc' \in {"idle", "catch"}) =>
          /\ (PlainMail(wjob) /\ last'.env.fail # "none") => ~last'.ok
          /\ ~last'.ok => /\ Last(last'.trace) = Reply("error", "", 0)
                          /\ wpc' = "catch"
                          /\ wjob' = wjob
                          /\ werr' = last'.env.fail
          /\ last'.ok => wpc' = "idle" /\ wjob \in done'
     /\ RetryStep =>
          \/ \E e \in retry' \ retry : e.value.id = wjob.id
          \/ /\ Len(failed') = Len(failed) + 1
             /\ Head(failed').job = wjob]_vars

\* a job whose pull request could not be created waits for its retry
C19_Witness ==
  /\ ~last.ok
  /\ last.err = "pr"
  /\ Last(last.trace) = Reply("error", "", 0)
  /\ \E e \in retry : e.value.id = last.job.id /\ e.value.retryCount = 1

\* C20: a shutdown signal that arrives while a job is in flight lets the job
\* finish: the process exits only between two jobs, never while a job is
\* being handled or is waiting for scheduleRetry.
C20_ExitOnlyBetweenJobs ==
  [][(wpc # "exit" /\ wpc' = "exit") => wpc = "idle"]_vars

\* a step of the retry processor
PromoterStep ==
  /\ wpc' # "exit"
  /\ \/ ppc' # ppc
     \/ ret' # ret
     \/ ready' # ready

\* C21: the worker loop has at most one job in flight: it takes the next job
\* off the pending list only when it holds none, the job it holds stays the
\* same until its processing, the scheduleRetry call of a failed job included,
\* is over, and a step of the retry processor changes nothing but the retry
\* set, the pending list and the processor's own variables.
C21_OneJobInFlight ==
  [][/\ (wpc' = "job" /\ wpc # "job") =>
          /\ wpc = "idle" /\ wjob = NoJob /\ werr = ""
          /\ pending # <<>>
          /\ wjob' = Head(pending) /\ pending' = Tail(pending)
     /\ (wpc = "job" /\ wpc' # "exit") =>
          \/ wpc' = "job" /\ wjob' = wjob
          \/ wpc' = "catch" /\ wjob' = wjob
          \/ wpc' = "idle" /\ wjob' = NoJob /\ wjob \in done'
     /\ (wpc = "catch" /\ wpc' # "exit") =>
          \/ wpc' = "catch" /\ wjob' = wjob /\ werr' = werr
          \/ wpc' = "idle" /\ wjob' = NoJob
             /\ (retry' # retry \/ failed' # failed)
     /\ PromoterStep =>
          UNCHANGED <<failed, db, prCount, nextId, wpc, wjob, werr, done,
                      attempts, notices, failAt, last>>]_vars

\* the retry processor is in the middle of a run while the worker's failed
\* job waits for scheduleRetry and another payload waits on the pending list
C21_Witness ==
  /\ wpc = "catch"
  /\ ppc["p1"] \in {"rem", "push"}
  /\ pending # <<>>

\* C22: the jobs the webhook enqueues are dequeued first in, first out: when
\* the worker takes a job that comes from the webhook, no job that the webhook
\* enqueued before it is still waiting on the pending list.
C22_FirstInFirstOut ==
  [][(wpc' = "job" /\ wpc # "job" /\ wjob'.retryCount = AbsentCount) =>
        \A k \in Range(pending') :
           k.retryCount = AbsentCount => k.id > wjob'.id]_vars

\* the lower-cased subject has the literal at position i
TokenAt(subject, tok, i) ==
  /\ i + Len(TokenText[tok]) - 1 <= Len(subject)
  /\ \A k \in DOMAIN TokenText[tok] :
        toLowerCaseChar(subject[i + k - 1]) = TokenText[tok][k]

Contains(subject, tok) == \E i \in DOMAIN subject : TokenAt(subject, tok, i)

\* the subject with a prefix and the subject in other case or white space
Prefixed(pre, subject) == pre \o subject
SubjectVariants(subject) ==
  {Prefixed(<<"R", "e", ":", " ">>, subject),
   Prefixed(<<"F", "w", "d", ":", " ">>, subject),
   Prefixed(<<"F", "W", ":", " ">>, subject),
   toLowerCase(subject),
   <<" ", " ">> \o subject \o <<" ">>}

\* C24: for every subject S, "Re: S", "Fwd: S", "FW: S", S in another letter
\* case and S with more white space around it have the hash of S.
C24_HashIgnoresPrefixCaseAndSpace ==
  text.fn = "hashSubject" =>
     \A v \in SubjectVariants(text.subject) : hashSubject(v) = text.out

\* C27: detectApproval is true whenever the subject contains [confirm] in any
\* letter case, whatever phrases the text matches; without it, it is false
\* whenever a revision phrase matches, even next to an approval phrase; and
\* without both it is true exactly when an approval phrase matches.
C27_ApprovalPrecedence ==
  text.fn = "detectApproval" =>
     /\ Contains(text.subject, "confirm") => text.out = TRUE
     /\ (~Contains(text.subject, "confirm") /\ "revision" \in text.phrases)
           => text.out = FALSE
     /\ (~Contains(text.subject, "confirm") /\ "revision" \notin text.phrases)
           => text.out = ("approval" \in text.phrases)

\* [Confirm] in the subject of a mail whose text asks for a change
C27_Witness ==
  /\ text.fn = "detectApproval"
  /\ includes(text.subject, <<"[", "C", "o", "n", "f", "i", "r", "m", "]">>)
  /\ text.phrases = {"revision"}
  /\ text.out = TRUE

\* the order in which parseCommand tests the tokens
CommandOrder == <<"merge", "close", "status", "plan", "confirm", "cancel">>

\* C28: parseCommand returns a command exactly when the lower-cased subject
\* contains one of the six bracket tokens somewhere; a token with a missing
\* bracket or with white space inside does not count; of several tokens the
\* first in the order merge, close, status, plan, confirm, cancel is returned.
C28_ParseCommand ==
  text.fn = "parseCommand" =>
     LET found == {i \in DOMAIN CommandOrder :
                     Contains(text.subject, CommandOrder[i])}
     IN /\ (found = {}) = (text.out = "none")
        /\ found # {} =>
              text.out = CommandOrder[CHOOSE i \in found :
                                        \A j \in found : i <= j]

\* [cancel] before [CLOSE], after a token that lacks its closing bracket
C28_Witness ==
  /\ text.fn = "parseCommand"
  /\ text.subject = <<"[", "m", "e", "r", "g", "e">>
                    \o <<"[", "c", "a", "n", "c", "e", "l", "]">>
                    \o <<"[", "C", "L", "O", "S", "E", "]">>
  /\ text.out = "close"

\* the rows of the sessions table
Rows == {s \in Range(SessionIds) : db[s].exists}

\* C23: there is at most one session for a subject hash: the first mail with
\* a new hash creates a session without pull request and continuation token,
\* every later mail with that hash resolves to the same session and sets its
\* last_activity, and no step deletes a session or changes its hash.
C23_OneSessionPerSubjectHash ==
  [][/\ \A s, t \in Rows' : subject_hash'[s] = subject_hash'[t] => s = t
     /\ \A s \in Rows : s \in Rows' /\ subject_hash'[s] = subject_hash[s]
     /\ nextId' = nextId + 1 =>
          LET mail == inbox'[Len(inbox')]
              subjectHash == hashSubject(mail.subject)
              known == {s \in Rows : subject_hash[s] = subjectHash}
          IN /\ subject_hash'[mail.sid] = subjectHash
             /\ last_activity'[mail.sid] = now
             /\ pending'[1].sid = mail.sid
             /\ IF known # {}
                THEN mail.sid \in known /\ db' = db
                ELSE /\ mail.sid \notin Rows
                     /\ Rows' = Rows \cup {mail.sid}
                     /\ db'[mail.sid].prNumber = NoPR
                     /\ db'[mail.sid].claudeSessionId = Null]_vars

\* a reply with another subject reached the session of the first mail, which
\* has a pull request by then, and set its last_activity
C23_Witness ==
  /\ Len(inbox) = 2
  /\ inbox[1].sid = inbox[2].sid
  /\ inbox[1].subject # inbox[2].subject
  /\ inbox[1].processed
  /\ db[inbox[1].sid].prNumber # NoPR
  /\ last_activity[inbox[1].sid] = 1000

\* `reply` is "Re: " and `subject` with a bracket command added at its end
CommandReply(reply, subject, tok) ==
  reply = Str_Re \o subject \o <<" ">> \o TokenText[tok]

\* C25: a reply whose subject is the subject of an existing thread with a
\* bracket command added resolves to the session of that thread, and a
\* [merge] so sent merges the pull request of that thread.
C25_CommandReplyReachesThread ==
  \A i, j \in DOMAIN inbox :
     (i < j /\ \E tok \in Tokens :
                  CommandReply(inbox[j].subject, inbox[i].subject, tok)) =>
        /\ inbox[j].sid = inbox[i].sid
        /\ (/\ inbox[j].processed
            /\ i \in inbox[j].after
            /\ CommandReply(inbox[j].subject, inbox[i].subject, "merge")
            /\ db[inbox[i].sid].prNumber # NoPR)
              => \E k \in DOMAIN inbox[j].trace :
                    inbox[j].trace[k] =
                       PrOp("mergePR", db[inbox[i].sid].prNumber)

\* C26: after the plan mail for a thread was sent, a reply to it with
\* [confirm] added to the subject reaches the same session and executes the
\* plan that was sent, and a reply with [cancel] added reaches the same
\* session and cancels the plan.
C26_PlanMailInstructionsWork ==
  \A i, j \in DOMAIN inbox :
     (/\ i \in inbox[j].after
      /\ Replies(inbox[i].trace, "plan") # {}
      /\ inbox[j].processed) =>
        /\ (\/ CommandReply(inbox[j].subject, Str_Re \o inbox[i].subject,
                            "confirm")
            \/ CommandReply(inbox[j].subject, inbox[i].subject, "confirm"))
             => /\ inbox[j].sid = inbox[i].sid
                /\ \E k \in DOMAIN inbox[j].trace :
                      /\ inbox[j].trace[k].k = "agent"
                      /\ inbox[j].trace[k].s = "execution"
                      /\ inbox[j].trace[k].plan = "planA"
        /\ (\/ CommandReply(inbox[j].subject, Str_Re \o inbox[i].subject,
                            "cancel")
            \/ CommandReply(inbox[j].subject, inbox[i].subject, "cancel"))
             => /\ inbox[j].sid = inbox[i].sid
                /\ Replies(inbox[j].trace, "cancelled") # {}

\* the run of the retried job: the same job, the session as the failed run
\* left it, the collaborators working
RetriedRun(run) ==
  LET st == PlanStateAfter(PlanStateOf(run.session), run.trace)
  IN handleEmailJob(run.job,
                    [run.session EXCEPT !.mode = st.mode,
                                        !.pendingPlan = st.pendingPlan],
                    [run.env EXCEPT !.fail = "none"])

\* C29: when the agent run, or a step after it, fails during the execution of
\* an approved plan, the session still holds that plan for the retry, and the
\* retried job is handled as the execution of the same plan.
C29_RetryExecutesSamePlan ==
  (/\ last.session.mode = "plan_pending"
   /\ ApprovalMail(last.job)
   /\ ~last.ok
   /\ last.err \in {"agent", "pr", "url"}) =>
     LET st == PlanStateAfter(PlanStateOf(last.session), last.trace)
         again == RetriedRun(last).trace
     IN /\ st.mode = "plan_pending"
        /\ st.pendingPlan = last.session.pendingPlan
        /\ \E k \in DOMAIN again :
              /\ again[k].k = "agent"
              /\ again[k].s = "execution"
              /\ again[k].plan = last.session.pendingPlan

\* C30: when two workers have processed two jobs of one session concurrently,
\* the stored row is the row as the job that wrote last leaves it: the row
\* that job read with that job's writes, no field coming from the other job's
\* later-overwritten or concurrent writes.
C30_LastWriteWins ==
  (/\ \A w \in RaceWorkers : pool[w].pc = "done"
   /\ wrote # <<>>) =>
     LET w == wrote[Len(wrote)]
     IN db["s1"] = ApplyUpdates(pool[w].read, pool[w].all)

\* C31: normalizing a normalized subject changes nothing, and a subject under
\* two stacked prefixes ("Re: Re: S", "Re: Fwd: S") has the hash of S.
C31_NormalizationIsIdempotent ==
  text.fn = "hashSubject" =>
     LET normalized == text.out.sha256
     IN /\ normalizeSubject(normalized) = normalized
        /\ hashSubject(Str_Re \o Str_Re \o text.subject) = text.out
        /\ hashSubject(Str_Re \o <<"F", "w", "d", ":", " ">> \o text.subject)
              = text.out

\* job `id` waits on the pending list or in the retry set
Waiting(id) == \E j \in PendingJobs \cup RetryJobs : j.id = id

\* C32: with the worker loop, the retry processor and the clock going on, and
\* finitely many jobs enqueued, no job stays on the pending list or in the
\* retry set for ever: each one completes or is dead-lettered, and in the end
\* both are empty with every job the webhook accepted completed or
\* dead-lettered.
C32_EveryJobSettles ==
  /\ \A id \in JobIds : Waiting(id) ~> (~Waiting(id) /\ (Done(id) \/ Dead(id)))
  /\ <>[](/\ pending = <<>>
          /\ retry = {}
          /\ wpc = "idle"
          /\ \A id \in 1..nextId : Done(id) \/ Dead(id))

\* one job completed at its third attempt, the other was dead-lettered, and
\* nothing is waiting
C32_Witness ==
  /\ pending = <<>>
  /\ retry = {}
  /\ \E a, b \in JobIds :
        /\ Done(a) /\ attempts[a] = 3
        /\ Dead(b) /\ attempts[b] = 4

\* the time before which a payload that has failed cannot be processed again:
\* the time of its failure plus 2^rc seconds, rc its retry counter then
DueTime(job) == failAt[job.id] + Pow2(job.retryCount - 1) * 1000

\* C33: a job that failed at time t with retry counter rc is in the retry set
\* with due time t + 2^rc * 1000 ms and, until then, nowhere else: it is not
\* on the pending list, not with the retry processor and not with the worker
\* before its due time.
C33_InvisibleUntilDue ==
  /\ \A e \in retry :
        /\ e.value.retryCount >= 1
        /\ e.score = DueTime(e.value)
        /\ now < e.score =>
              \A j \in PendingJobs \cup Held \cup InFlight : j.id # e.value.id
  /\ \A j \in PendingJobs \cup Held \cup InFlight :
        RetryCountOf(j) >= 1 => now >= DueTime(j)

\* the worker has a job again exactly when its second backoff is over, while
\* another job is still waiting for its due time
C33_Witness ==
  /\ wpc = "job"
  /\ wjob.retryCount = 2
  /\ now = failAt[wjob.id] + 2000
  /\ \E e \in retry : e.score > now

\* the step in which the worker's processJob runs
ProcessStep == wpc = "job" /\ wpc' \in {"idle", "catch"}

\* C34: the continuation token of a session is absent until an agent run for
\* the session has succeeded, is never absent again once it is set, and every
\* agent run for a session whose stored token is present when the job is
\* processed resumes with that token, whether or not the job was enqueued
\* with resumeSession.
C34_ContinuationToken ==
  [][\A sid \in Sessions :
       /\ db[sid].claudeSessionId # Null => db'[sid].claudeSessionId # Null
       /\ (db[sid].claudeSessionId = Null /\ db'[sid].claudeSessionId # Null)
            => /\ ProcessStep
               /\ wjob.sid = sid
               /\ AgentRuns(last'.trace) # <<>>
               /\ last'.err # "agent"
       /\ (ProcessStep /\ wjob.sid = sid) =>
            \A i \in DOMAIN last'.trace :
               last'.trace[i].k = "agent" =>
                  last'.trace[i].tok = db[sid].claudeSessionId]_vars

\* a job enqueued before the session had a token is run as a resume
C34_Witness ==
  /\ ~last.job.resumeSession
  /\ \E i \in DOMAIN last.trace :
        last.trace[i].k = "agent" /\ last.trace[i].tok = "tok1"

\* the run went through finalizePRAndReply: a normal execution or the
\* execution of a plan whose agent run returned
Finalized(run) ==
  /\ AgentRuns(run.trace) # <<>>
  /\ AgentRuns(run.trace)[1].s \in {"full", "execution"}
  /\ run.err # "agent"

\* C35: a run that leaves no commits creates no pull request and comments on
\* none, leaves the pull-request number of the session as it was (absent, if
\* it was absent), and still ends with a success reply, which shows no pull
\* request.
C35_NoCommitsNoPullRequest ==
  (last.job # NoJob /\ ~last.env.commits) =>
     /\ \A i \in DOMAIN last.trace :
           /\ last.trace[i].k = "pr" =>
                 last.trace[i].s \notin {"createPR", "commentOnPR"}
           /\ last.trace[i].k = "update" => last.trace[i].u.prNumber = -1
     /\ db[last.job.sid].prNumber = last.session.prNumber
     /\ Finalized(last) =>
           /\ last.ok
           /\ last.trace[Len(last.trace)] = Reply("success", "", NoPR)
           /\ Select(last.trace, "pr") = <<>>

\* a first run of a session that changed nothing was answered
C35_Witness ==
  /\ Finalized(last)
  /\ ~last.env.commits
  /\ last.session.prNumber = NoPR
  /\ db[last.job.sid].prNumber = NoPR
  /\ last.trace[Len(last.trace)] = Reply("success", "", NoPR)

\* C36: every run of handleEmailJob that finishes without error has sent at
\* least one reply to the sender, whatever the mode, the pull request and
\* the command of the mail.
C36_EveryFinishedJobReplied ==
  (last.job # NoJob /\ last.ok) => Select(last.trace, "reply") # <<>>

\* the claim holds for every run but a [confirm] or [cancel] mail to a
\* session in normal mode that has a pull request
C36_RepliedButConfirmCancel ==
  (/\ last.job # NoJob
   /\ last.ok
   /\ ~(/\ parseCommand(last.job.tokens) \in {"confirm", "cancel"}
        /\ last.session.mode # "plan_pending"
        /\ last.session.prNumber # NoPR))
     => Select(last.trace, "reply") # <<>>

\* ------------------------------------- a store write of scheduleRetry fails
\* runWorker: the catch calls scheduleRetry, whose redis.lPush / redis.zAdd
\* rejects. The error leaves the inner catch, the outer catch of the loop
\* logs it and sleeps 5 s, and the loop goes on to the next BLPOP.
WorkerScheduleRetryFails ==
  /\ wpc = "catch"
  /\ wpc' = "idle"
  /\ wjob' = NoJob
  /\ werr' = ""
  /\ UNCHANGED <<now, pending, retry, failed, db, prCount, nextId, ppc, ready,
                 movedCount, t0, took, ret, done, attempts, notices, failAt,
                 last>>
  /\ UNCHANGED auxVars

StoreNext ==
  \/ Tick
  \/ Webhook
  \/ WorkerDequeue
  \/ Process
  \/ WorkerScheduleRetry
  \/ WorkerScheduleRetryFails
  \/ RetryScan("p1")
  \/ RetryRemove("p1")
  \/ RetryPush("p1")

StoreSpec == Init /\ [][StoreNext]_vars

\* C37: without a crash, every accepted job is at every moment in exactly one
\* place (pending list, in flight, retry set, dead-letter list, completed),
\* never in two and never in none, also when a store write made by
\* scheduleRetry fails. A payload between the ZREM and the RPUSH of the retry
\* processor is counted as in flight.
C37_ExactlyOnePlace == \A id \in 1..nextId : Occurrences(id) = 1

\* a job is never in two places, and it leaves its last place only in the
\* step in which the worker's catch ends without a write to the store
C37_LostOnlyByFailedWrite ==
  [][\A id \in 1..nextId :
       /\ Occurrences(id) <= 1
       /\ (Occurrences(id) = 1 /\ Occurrences(id)' = 0) =>
             /\ wpc = "catch"
             /\ wjob.id = id
             /\ wpc' = "idle"
             /\ retry' = retry
             /\ failed' = failed]_vars

\* C38: every job in the pending list, the retry set or the dead-letter list
\* has a retryCount between 0 and 3 (absent counts as 0), and every entry of
\* the dead-letter list has retryCount exactly 3, a last error and the time
\* at which it failed.
C38_RetryCountBounded ==
  /\ \A j \in Range(pending) \cup RetryJobs \cup FailedJobs :
        RetryCountOf(j) \in 0..MAX_RETRIES
  /\ \A i \in DOMAIN failed :
        /\ failed[i].job.retryCount = MAX_RETRIES
        /\ failed[i].lastError # ""
        /\ failed[i].failedAt \in 0..now

\* a dead-lettered job while another job waits in a queue
C38_Witness ==
  /\ failed # <<>>
  /\ Head(failed).job.retryCount = 3
  /\ Head(failed).lastError # ""
  /\ \E j \in Range(pending) \cup RetryJobs : j.id # Head(failed).job.id

\* C39: with one worker, the pull-request number of a session is never
\* changed or cleared once it is set, no more pull requests are created than
\* sessions have one, and a job processed for a session whose number is
\* stored (the retry of a job that failed after its pull request was created
\* included) creates none and comments on the stored one.
C39_OnePullRequestPerSession ==
  [][/\ prCount' <= Cardinality({s \in Sessions : db'[s].prNumber # NoPR})
     /\ \A sid \in Sessions :
          /\ db[sid].prNumber # NoPR => db'[sid].prNumber = db[sid].prNumber
          /\ (ProcessStep /\ wjob.sid = sid /\ db[sid].prNumber # NoPR) =>
               /\ CreatedPRs(last'.trace) = 0
               /\ (Finalized(last') /\ last'.err # "pr") =>
                     \E i \in DOMAIN last'.trace :
                        last'.trace[i] = PrOp("commentOnPR", db[sid].prNumber)]_vars

\* the only job so far failed after its pull request was created, and its
\* retry commented on that pull request
C39_Witness ==
  /\ nextId = 1
  /\ RetryCountOf(last.job) = 1
  /\ last.session.prNumber = 1
  /\ prCount = 1
  /\ db[last.job.sid].prNumber = 1
  /\ \E i \in DOMAIN last.trace : last.trace[i] = PrOp("commentOnPR", 1)

\* the run was the revision of a pending plan
RevisionRun(run) ==
  /\ run.session.mode = "plan_pending"
  /\ parseCommand(run.job.tokens) \in {"none", "plan"}
  /\ ~detectApproval(run.job.tokens, run.job.phrases)

\* C40: when the agent fails during the revision of a plan, the run writes
\* nothing to the session: the mode is still plan_pending and the pending
\* plan is the one from before, and the retried job revises that same plan.
C40_FailedRevisionKeepsPlan ==
  (RevisionRun(last) /\ last.err = "agent") =>
     LET st == PlanStateAfter(PlanStateOf(last.session), last.trace)
         again == RetriedRun(last).trace
     IN /\ ~last.ok
        /\ Select(last.trace, "update") = <<>>
        /\ st = PlanStateOf(last.session)
        /\ st.mode = "plan_pending"
        /\ st.pendingPlan = "planA"
        /\ \E k \in DOMAIN again :
              /\ again[k].k = "agent"
              /\ again[k].s = "revision"
              /\ again[k].plan = last.session.pendingPlan

\* a revision request was recorded, the agent failed, the error was mailed
C40_Witness ==
  /\ RevisionRun(last)
  /\ last.err = "agent"
  /\ last.session.pendingPlan = "planA"
  /\ \E i \in DOMAIN last.trace : last.trace[i] = Msg("user", "[Revision Request]")
  /\ last.trace[Len(last.trace)] = Reply("error", "", 0)

====
